---- MODULE Spec2Model ----
(***************************************************************************)
(* tracing-chrometrace: a tracing Layer that streams ChromeEvents as one   *)
(* JSON array.  ChromeLayer::write defers every event by one in a          *)
(* capacity-one ArrayQueue behind a Mutex; ChromeWriterGuard::new writes   *)
(* the opening bracket and ChromeWriterGuard::drop drains the queue and    *)
(* writes the closing bracket.                                             *)
(*                                                                         *)
(* Strings that the code inspects (field values) are sequences of one-     *)
(* character strings; field names and wire codes, which the code only      *)
(* compares whole, are TLA+ strings.  An Option<T> is a set with at most   *)
(* one element.                                                            *)
(***************************************************************************)
EXTENDS Integers, Sequences, FiniteSets, TLC

\* ---------------------------------------------------------------- bounds
\* Producer threads calling into the layer.
NThreads == 2
\* Layer callbacks the producers make, all together.
MaxOps == 4
\* Spans the host registry hands out.
NSpans == 1
\* Events recorded in a run of SpecFields.
MaxFieldOps == 2

Threads == 1..NThreads
SpanIds == 1..NSpans

\* --------------------------------------------------------- Option, text
None == {}
Some(v) == {v}
Unwrap(o) == CHOOSE v \in o : TRUE

\* str::trim_matches(c): drop every leading and every trailing c.
RECURSIVE TrimStart(_, _)
TrimStart(s, c) ==
    IF s # <<>> /\ Head(s) = c THEN TrimStart(Tail(s), c) ELSE s

RECURSIVE TrimEnd(_, _)
TrimEnd(s, c) ==
    IF s # <<>> /\ s[Len(s)] = c THEN TrimEnd(SubSeq(s, 1, Len(s) - 1), c) ELSE s

trim_matches(s, c) == TrimEnd(TrimStart(s, c), c)

Digits == <<"0", "1", "2", "3", "4", "5", "6", "7", "8", "9">>
IsDigit(ch) == \E i \in 1..10 : Digits[i] = ch
DigitVal(ch) == (CHOOSE i \in 1..10 : Digits[i] = ch) - 1

\* str::parse for the numeric fields, on the values the model feeds it:
\* an unsigned decimal numeral parses to its value, text holding anything
\* but digits (and the empty text) is an Err.
RECURSIVE NumeralValue(_)
NumeralValue(s) ==
    IF s = <<>> THEN 0
    ELSE 10 * NumeralValue(SubSeq(s, 1, Len(s) - 1)) + DigitVal(s[Len(s)])

parse(s) ==
    IF s # <<>> /\ \A i \in 1..Len(s) : IsDigit(s[i])
    THEN Some(NumeralValue(s)) ELSE None

\* An f64: a finite value, or the NaN that JSON has no number for.
Finite(n) == [finite |-> n]
NaN == [nan |-> TRUE]

\* Mutant of parse_f64: text that is no number parses as zero.
parse_f64_lenient(s) ==
    IF s = <<"N", "a", "N">> THEN Some(NaN)
    ELSE IF parse(s) = None THEN Some(Finite(0))
    ELSE Some(Finite(Unwrap(parse(s))))

\* str::parse::<f64> on the values the model feeds it: as parse, and the
\* text NaN parses to f64::NAN.
parse_f64(s) ==
    IF s = <<"N", "a", "N">> THEN Some(NaN)
    ELSE IF parse(s) = None THEN None
    ELSE Some(Finite(Unwrap(parse(s))))

\* ------------------------------------------------------------ EventType
EventType ==
    {"DurationBegin", "DurationEnd", "Complete", "Instant",
     "Counter", "AsyncStart", "AsyncInstant", "AsyncEnd",
     "FlowStart", "FlowStep", "FlowEnd", "Sample",
     "ObjectCreated", "ObjectSnapshot", "ObjectDestroyed", "Metadata",
     "MemoryDumpGlobal", "MemoryDumpProcess", "Mark", "ClockSync",
     "ContextBegin", "ContextEnd"}

\* Mutant of PhCode: AsyncStart is renamed to the code of DurationBegin.
PhCodeColliding(ph) ==
    CASE ph = "DurationBegin" -> "B"
      [] ph = "DurationEnd" -> "E"
      [] ph = "Complete" -> "X"
      [] ph = "Instant" -> "i"
      [] ph = "Counter" -> "C"
      [] ph = "AsyncStart" -> "B"
      [] ph = "AsyncInstant" -> "n"
      [] ph = "AsyncEnd" -> "e"
      [] ph = "FlowStart" -> "s"
      [] ph = "FlowStep" -> "t"
      [] ph = "FlowEnd" -> "f"
      [] ph = "Sample" -> "p"
      [] ph = "ObjectCreated" -> "N"
      [] ph = "ObjectSnapshot" -> "O"
      [] ph = "ObjectDestroyed" -> "D"
      [] ph = "Metadata" -> "M"
      [] ph = "MemoryDumpGlobal" -> "V"
      [] ph = "MemoryDumpProcess" -> "v"
      [] ph = "Mark" -> "R"
      [] ph = "ClockSync" -> "c"
      [] ph = "ContextBegin" -> "("
      [] ph = "ContextEnd" -> ")"

\* #[serde(rename = ...)]: the wire code each phase serializes to.
PhCode(ph) ==
    CASE ph = "DurationBegin" -> "B"
      [] ph = "DurationEnd" -> "E"
      [] ph = "Complete" -> "X"
      [] ph = "Instant" -> "i"
      [] ph = "Counter" -> "C"
      [] ph = "AsyncStart" -> "b"
      [] ph = "AsyncInstant" -> "n"
      [] ph = "AsyncEnd" -> "e"
      [] ph = "FlowStart" -> "s"
      [] ph = "FlowStep" -> "t"
      [] ph = "FlowEnd" -> "f"
      [] ph = "Sample" -> "p"
      [] ph = "ObjectCreated" -> "N"
      [] ph = "ObjectSnapshot" -> "O"
      [] ph = "ObjectDestroyed" -> "D"
      [] ph = "Metadata" -> "M"
      [] ph = "MemoryDumpGlobal" -> "V"
      [] ph = "MemoryDumpProcess" -> "v"
      [] ph = "Mark" -> "R"
      [] ph = "ClockSync" -> "c"
      [] ph = "ContextBegin" -> "("
      [] ph = "ContextEnd" -> ")"

\* Deserialize for EventType: the variants renamed to the wire code.
PhDecode(code) == {ph \in EventType : PhCode(ph) = code}

\* strum AsRefStr / EnumString: the variant's name as text.
VariantName(ph) ==
    CASE ph = "DurationBegin" ->
            <<"D", "u", "r", "a", "t", "i", "o", "n", "B", "e", "g", "i", "n">>
      [] ph = "DurationEnd" ->
            <<"D", "u", "r", "a", "t", "i", "o", "n", "E", "n", "d">>
      [] ph = "Complete" ->
            <<"C", "o", "m", "p", "l", "e", "t", "e">>
      [] ph = "Instant" ->
            <<"I", "n", "s", "t", "a", "n", "t">>
      [] ph = "Counter" ->
            <<"C", "o", "u", "n", "t", "e", "r">>
      [] ph = "AsyncStart" ->
            <<"A", "s", "y", "n", "c", "S", "t", "a", "r", "t">>
      [] ph = "AsyncInstant" ->
            <<"A", "s", "y", "n", "c", "I", "n", "s", "t", "a", "n", "t">>
      [] ph = "AsyncEnd" ->
            <<"A", "s", "y", "n", "c", "E", "n", "d">>
      [] ph = "FlowStart" ->
            <<"F", "l", "o", "w", "S", "t", "a", "r", "t">>
      [] ph = "FlowStep" ->
            <<"F", "l", "o", "w", "S", "t", "e", "p">>
      [] ph = "FlowEnd" ->
            <<"F", "l", "o", "w", "E", "n", "d">>
      [] ph = "Sample" ->
            <<"S", "a", "m", "p", "l", "e">>
      [] ph = "ObjectCreated" ->
            <<"O", "b", "j", "e", "c", "t", "C", "r", "e", "a", "t", "e", "d">>
      [] ph = "ObjectSnapshot" ->
            <<"O", "b", "j", "e", "c", "t", "S", "n", "a", "p", "s", "h", "o", "t">>
      [] ph = "ObjectDestroyed" ->
            <<"O", "b", "j", "e", "c", "t", "D", "e", "s", "t", "r", "o", "y", "e", "d">>
      [] ph = "Metadata" ->
            <<"M", "e", "t", "a", "d", "a", "t", "a">>
      [] ph = "MemoryDumpGlobal" ->
            <<"M", "e", "m", "o", "r", "y", "D", "u", "m", "p", "G", "l", "o", "b", "a", "l">>
      [] ph = "MemoryDumpProcess" ->
            <<"M", "e", "m", "o", "r", "y", "D", "u", "m", "p", "P", "r", "o", "c", "e", "s", "s">>
      [] ph = "Mark" ->
            <<"M", "a", "r", "k">>
      [] ph = "ClockSync" ->
            <<"C", "l", "o", "c", "k", "S", "y", "n", "c">>
      [] ph = "ContextBegin" ->
            <<"C", "o", "n", "t", "e", "x", "t", "B", "e", "g", "i", "n">>
      [] ph = "ContextEnd" ->
            <<"C", "o", "n", "t", "e", "x", "t", "E", "n", "d">>

\* EventType::from_str (derive EnumString): the variant whose name is s.
from_str(s) == {ph \in EventType : VariantName(ph) = s}

\* #[default] on the enum.
EventTypeDefault == "Instant"

\* ---------------------------------------------- ChromeEvent and builder
\* std::process::id() of the traced process.
ProcessId == 1

\* ChromeEventBuilder: the fields set so far (a field never set is absent).
\* ChromeEvent::builder(start) sets only `start`, which is never serialized.
builder == <<>>

\* A generated setter: builder.name(v), builder.ph(v), ...
SetField(b, k, v) == (k :> v) @@ b

\* Mutant of arg: the pair is not stored.
arg_forgetting(b, key, value) == b

\* builder.arg((key, value)): #[builder(setter(each = "arg"))] extends the
\* args map, a later pair with the same key replacing the earlier one.
arg(b, key, value) ==
    LET old == IF "args" \in DOMAIN b THEN b["args"] ELSE <<>>
    IN  SetField(b, "args", (key :> value) @@ old)

\* ChromeEventBuilder::build: every unset field takes its #[builder(default)].
\* now is SystemTime::now() - start, tid the calling thread's id.
build(b, now, tid) ==
    LET get(k, dflt) == IF k \in DOMAIN b THEN b[k] ELSE dflt
    IN  [name |-> get("name", <<>>),
         cat  |-> get("cat", <<>>),
         ph   |-> get("ph", EventTypeDefault),
         ts   |-> get("ts", Finite(now)),
         dur  |-> get("dur", None),
         tts  |-> get("tts", None),
         id   |-> get("id", <<>>),
         pid  |-> get("pid", ProcessId),
         tid  |-> get("tid", tid),
         args |-> get("args", <<>>)]

\* The keys serde writes for an event: dur and tts are skipped when None,
\* id when empty, args when empty; start is #[serde(skip)].
SerializedKeys(e) ==
    {"name", "cat", "ph", "ts", "pid", "tid"}
        \cup (IF e.dur # None THEN {"dur"} ELSE {})
        \cup (IF e.tts # None THEN {"tts"} ELSE {})
        \cup (IF e.id # <<>> THEN {"id"} ELSE {})
        \cup (IF DOMAIN e.args # {} THEN {"args"} ELSE {})

\* serde_json's text for an f64: a number, or null when it is not finite.
JNum(n) == [num |-> n]
JNull == [null |-> TRUE]
JsonF64(x) == IF x = NaN THEN JNull ELSE JNum(x.finite)

\* serde_json::to_string(&event): the JSON object, as its key/value map.
to_string(e) ==
    [k \in SerializedKeys(e) |->
        CASE k = "ph"  -> PhCode(e.ph)
          [] k = "ts"  -> JsonF64(e.ts)
          [] k = "dur" -> JsonF64(Unwrap(e.dur))
          [] k = "tts" -> JsonF64(Unwrap(e.tts))
          [] OTHER     -> e[k]]

\* Deserialize for f64: a JSON number; null is an invalid type.
F64OfJson(v) == IF v = JNull THEN None ELSE Some(Finite(v.num))

\* serde_json::from_str::<ChromeEvent>(&serialized): name, cat, ph, ts, pid
\* and tid are required, dur and tts are None when missing or null, id and
\* args take their #[serde(default)] when missing.  None is the Err.
deserialize(json) ==
    LET has(k) == k \in DOMAIN json
        opt(k) == IF has(k) THEN F64OfJson(json[k]) ELSE None
        dflt(k) == IF has(k) THEN json[k] ELSE <<>>
    IN  IF /\ {"name", "cat", "ph", "ts", "pid", "tid"} \subseteq DOMAIN json
           /\ F64OfJson(json["ts"]) # None
           /\ PhDecode(json["ph"]) # {}
        THEN Some([name |-> json["name"],
                   cat  |-> json["cat"],
                   ph   |-> Unwrap(PhDecode(json["ph"])),
                   ts   |-> Unwrap(F64OfJson(json["ts"])),
                   dur  |-> opt("dur"),
                   tts  |-> opt("tts"),
                   id   |-> dflt("id"),
                   pid  |-> json["pid"],
                   tid  |-> json["tid"],
                   args |-> dflt("args")])
        ELSE None

\* PartialEq for f64 and Option<f64>: NaN equals nothing, itself included.
F64Eq(x, y) == x # NaN /\ y # NaN /\ x = y
OptF64Eq(x, y) ==
    \/ x = None /\ y = None
    \/ x # None /\ y # None /\ F64Eq(Unwrap(x), Unwrap(y))

\* #[derivative(PartialEq)] for ChromeEvent: field by field, start ignored.
eq(a, b) ==
    /\ a.name = b.name /\ a.cat = b.cat /\ a.ph = b.ph
    /\ F64Eq(a.ts, b.ts) /\ OptF64Eq(a.dur, b.dur) /\ OptF64Eq(a.tts, b.tts)
    /\ a.id = b.id /\ a.pid = b.pid /\ a.tid = b.tid
    /\ a.args = b.args

\* ------------------------------------------------- ChromeEventVisitor
\* struct ChromeEventVisitor { builder, event }.
ChromeEventVisitor(b) == [builder |-> b, event |-> None]

\* The outcome of a callback step that may unwind.
Ok(v) == [panic |-> FALSE, v |-> v]
Panic(v) == [panic |-> TRUE, v |-> v]

\* Visit::record_debug(field, value): value is the Debug text of the field.
record_debug(self, name, value0) ==
    LET value == trim_matches(value0, "\"")
        num == parse(value)
        flt == parse_f64(value)
        setb(b) == Ok([self EXCEPT !.builder = b])
    IN  CASE name = "name" -> setb(SetField(self.builder, "name", value))
          [] name = "cat"  -> setb(SetField(self.builder, "cat", value))
          [] name = "id"   -> setb(SetField(self.builder, "id", value))
          [] name = "ph"   ->
                IF from_str(value) = None THEN Panic(self)
                ELSE setb(SetField(self.builder, "ph", Unwrap(from_str(value))))
          [] name = "ts"   ->
                IF flt = None THEN Panic(self)
                ELSE setb(SetField(self.builder, "ts", Unwrap(flt)))
          [] name = "dur"  ->
                IF flt = None THEN Panic(self)
                ELSE setb(SetField(self.builder, "dur", Some(Unwrap(flt))))
          [] name = "tts"  ->
                IF flt = None THEN Panic(self)
                ELSE setb(SetField(self.builder, "tts", Some(Unwrap(flt))))
          [] name = "pid"  ->
                IF num = None THEN Panic(self)
                ELSE setb(SetField(self.builder, "pid", Unwrap(num)))
          [] name = "tid"  ->
                IF num = None THEN Panic(self)
                ELSE setb(SetField(self.builder, "tid", Unwrap(num)))
          [] name = "event" -> Ok([self EXCEPT !.event = Some(value)])
          [] OTHER -> setb(arg(self.builder, name, value))

\* attrs.record(&mut visitor) / event.record(&mut visitor): record_debug on
\* every field in order; a panic unwinds out of the remaining fields.
RECURSIVE record(_, _)
record(visitor, fields) ==
    IF fields = <<>> THEN Ok(visitor)
    ELSE LET r == record_debug(visitor, fields[1][1], fields[1][2])
         IN  IF r.panic THEN r ELSE record(r.v, Tail(fields))

\* visitor.event.as_ref().map(|event| event == "async").unwrap_or(false)
Async == <<"a", "s", "y", "n", "c">>
is_async(visitor) == visitor.event = Some(Async)

\* ------------------------------------------------------------- inputs
\* format!("{value:?}") of a &str: the text between double quotes (the
\* values below hold nothing Debug would escape); of an integer: its digits.
DebugStr(text) == <<"\"">> \o text \o <<"\"">>

\* Fields whose value record_debug cannot parse: a well-known numeric field
\* that is no number, a phase that is no variant of EventType.
BadInputs ==
    { << <<k, DebugStr(<<"x">>)>> >> : k \in {"ts", "dur", "tts", "pid", "tid"} }
    \cup { << <<"index", <<"7">>>>, <<"ph", DebugStr(<<"B">>)>> >> }

\* Fields of the events the producers record (tracing::info!(...)).
EventInputs ==
    { << <<"thread", <<"0">>>>, <<"index", <<"7">>>> >>,
      << <<"ts", DebugStr(<<"x">>)>> >> }

\* Fields of the spans the producers create.
SpanInputs ==
    { << <<"name", DebugStr(<<"l", "o", "a", "d">>)>>,
         <<"cat", DebugStr(<<"i", "o">>)>> >>,
      << <<"name", DebugStr(<<"r", "p", "c">>)>>,
         <<"event", DebugStr(Async)>>,
         <<"n", <<"1">>>> >> }

\* Fields that set a phase by name, one for every variant of EventType.
PhaseInputs == { << <<"ph", DebugStr(VariantName(p))>> >> : p \in EventType }

\* Fields of events that exercise record_debug and the builder: a message
\* only, the well-known texts, the well-known numbers, custom fields mixed
\* with well-known ones, the async directive alone, a NaN time stamp and a
\* NaN duration, and every phase.
FieldInputs ==
    { << <<"message", <<"h", "i">>>> >>,
      << <<"name", DebugStr(<<"h", "i">>)>>, <<"cat", DebugStr(<<"c">>)>>,
         <<"id", DebugStr(<<"7">>)>> >>,
      << <<"ts", <<"5">>>>, <<"dur", <<"2">>>>, <<"tts", <<"3">>>>,
         <<"pid", <<"4">>>>, <<"tid", <<"9">>>> >>,
      << <<"thread", <<"0">>>>, <<"name", DebugStr(<<"h", "i">>)>>,
         <<"event", DebugStr(<<"x">>)>>, <<"index", <<"7">>>> >>,
      << <<"event", DebugStr(Async)>> >>,
      << <<"ts", <<"N", "a", "N">>>> >>,
      << <<"dur", <<"N", "a", "N">>>> >> } \cup PhaseInputs

\* ---------------------------------------------------------------- state
VARIABLES
    gpc,        \* the guard: "unattached", "live", then drop's position
    slot,       \* events: ArrayQueue<String> behind the Mutex, oldest first
    holder,     \* the thread holding the Mutex (None: unlocked)
    sink,       \* every byte written through make_writer, as tokens
    pc,         \* each producer's position in ChromeLayer::write
    cur,        \* write's `current`, before it is pushed
    hand,       \* the evicted `event` write holds while it writes it
    inSpan,     \* the span whose extensions lock the running callback holds
    ops,        \* callbacks the producers have made, all together
    started,    \* the producer threads that have made a callback
    spanState,  \* registry: "none", "open", "closed", "leaked"
    extensions, \* per span: the ChromeEventVisitor and AsyncEntered
    inside,     \* registry: the threads currently inside each span
    attrsOf,    \* history: the fields each span was created with
    enters,     \* history: on_enter calls made for each span
    calls,      \* history: every string handed to write, in call order
    built,      \* history: the ChromeEvent behind each of those strings
    swaps,      \* history: every string pushed into the queue, in push order
    failed,     \* history: a write_all of an evicted event has returned Err
    recorded,   \* history: the fields of each event on_event built
    atDrop      \* history: the calls whose write had returned when drop began

vars == <<gpc, slot, holder, sink, pc, cur, hand, inSpan, ops, started,
          spanState,
          extensions, inside, attrsOf, enters, calls, built, swaps, failed,
          recorded, atDrop>>

engineVars == <<gpc, slot, holder, sink, cur, hand>>
spanVars == <<spanState, extensions, attrsOf>>

\* The thread that owns the ChromeWriterGuard.
Main == NThreads + 1

\* ArrayQueue::new(1)
Capacity == 1

\* ------------------------------------------------------------ the sink
Lit(text) == [lit |-> text]
Obj(str) == [obj |-> str]
IsObj(tok) == "obj" \in DOMAIN tok

\* Mutant of force_push: a full queue takes the new value and the oldest is
\* lost instead of being handed back.
force_push_losing(q, value) ==
    IF Len(q) >= Capacity
    THEN [queue |-> Tail(q) \o <<value>>, evicted |-> None]
    ELSE [queue |-> q \o <<value>>, evicted |-> None]

\* Mutant of force_push: a full queue rejects the value, as push does.
force_push_rejecting(q, value) ==
    IF Len(q) >= Capacity
    THEN [queue |-> q, evicted |-> None]
    ELSE [queue |-> q \o <<value>>, evicted |-> None]

\* ArrayQueue::force_push(value): push, evicting the oldest when full.
force_push(q, value) ==
    IF Len(q) >= Capacity
    THEN [queue |-> Tail(q) \o <<value>>, evicted |-> Some(Head(q))]
    ELSE [queue |-> q \o <<value>>, evicted |-> None]

\* write's buffer for an evicted event: the event, a comma, a newline.
EvictedBuf(event) == <<Obj(event), Lit(","), Lit("\n")>>

\* Mutant of DropBuf: the comma is pushed whether or not is_last.
DropBufAlwaysComma(event, is_last) == <<Obj(event), Lit(","), Lit("\n")>>

\* drop's closure `write`: the event, a comma unless is_last, a newline.
DropBuf(event, is_last) ==
    <<Obj(event)>> \o (IF is_last THEN <<>> ELSE <<Lit(",")>>) \o <<Lit("\n")>>

\* Mutant of Drain: the last event is popped and not written.
DrainButLast(q) == IF Len(q) > 1 THEN DropBuf(Head(q), FALSE) ELSE <<>>

\* drop's drain under the lock: pop and write until one is left, then the
\* last one without a comma.
RECURSIVE Drain(_)
Drain(q) ==
    IF Len(q) > 1 THEN DropBuf(Head(q), FALSE) \o Drain(Tail(q))
    ELSE IF Len(q) = 1 THEN DropBuf(Head(q), TRUE)
    ELSE <<>>

\* The string write is handed: the serialized event.  by, n and span are
\* labels the program never reads: the calling thread, the number of the
\* call among that thread's calls, and the span of the callback (0: none).
Labelled(json, t, s) ==
    [json |-> json, by |-> t,
     n |-> Cardinality({i \in 1..Len(calls) : calls[i].by = t}) + 1,
     span |-> s]

\* SystemTime::now() - start, in the model's time: events built so far.
Now == Len(calls)

\* -------------------------------------------------------------- Init
\* The process before ChromeLayer::with_writer: nothing written, no span.
Init ==
    /\ gpc = "unattached"
    /\ slot = <<>>
    /\ holder = None
    /\ sink = <<>>
    /\ pc = [t \in Threads |-> "idle"]
    /\ cur = [t \in Threads |-> None]
    /\ hand = [t \in Threads |-> None]
    /\ inSpan = [t \in Threads |-> None]
    /\ ops = 0
    /\ started = 0
    /\ spanState = [s \in SpanIds |-> "none"]
    /\ extensions = [s \in SpanIds |-> [visitor |-> None, asyncEntered |-> FALSE]]
    /\ inside = [s \in SpanIds |-> {}]
    /\ attrsOf = [s \in SpanIds |-> <<>>]
    /\ enters = [s \in SpanIds |-> 0]
    /\ calls = <<>>
    /\ built = <<>>
    /\ swaps = <<>>
    /\ failed = FALSE
    /\ recorded = <<>>
    /\ atDrop = None

\* ------------------------------------------- with_writer and the writer
\* Mutant of GuardNew: the guard is built without writing anything.
GuardNewSilent(out) == out

\* ChromeWriterGuard::new: write the opening bracket.
GuardNew(out) == out \o <<Lit("["), Lit("\n")>>

\* ChromeLayer::with_writer: the empty queue, the layer, and the guard.
WithWriter ==
    /\ gpc = "unattached"
    /\ slot' = <<>>
    /\ sink' = GuardNew(sink)
    /\ gpc' = "live"
    /\ UNCHANGED <<holder, pc, cur, hand, inSpan, ops, started, spanState,
                   extensions, inside, attrsOf, enters, calls, built, atDrop,
                   swaps, failed,
                   recorded>>

\* The producer threads started so far are 1..started: thread ids are handed
\* out in the order the threads first call in.
Starts(t) == IF t > started THEN t ELSE started

\* A callback may start: the layer exists, the thread is between callbacks.
CanCall(t) ==
    /\ gpc # "unattached"
    /\ t <= started + 1
    /\ pc[t] = "idle"
    /\ ops < MaxOps

\* self.write(writer, event) up to the lock: serialize into `current`.
\* s is the span whose extensions the callback keeps locked (0: none).
CallWrite(t, event, s) ==
    LET current == Labelled(to_string(event), t, s)
    IN  /\ cur' = [cur EXCEPT ![t] = Some(current)]
        /\ pc' = [pc EXCEPT ![t] = "swap"]
        /\ inSpan' = [inSpan EXCEPT ![t] = IF s = 0 THEN None ELSE Some(s)]
        /\ calls' = Append(calls, current)
        /\ built' = Append(built, event)

\* Mutant of Swap: the lock is released as soon as force_push returns, so
\* the evicted event is written outside the critical section.
SwapThenUnlock(t) ==
    /\ pc[t] = "swap"
    /\ holder = None
    /\ LET r == force_push(slot, Unwrap(cur[t]))
       IN  /\ slot' = r.queue
           /\ swaps' = Append(swaps, Unwrap(cur[t]))
           /\ cur' = [cur EXCEPT ![t] = None]
           /\ IF r.evicted # None
              THEN /\ hand' = [hand EXCEPT ![t] = r.evicted]
                   /\ pc' = [pc EXCEPT ![t] = "write"]
                   /\ UNCHANGED <<inSpan, holder>>
              ELSE /\ pc' = [pc EXCEPT ![t] = "idle"]
                   /\ inSpan' = [inSpan EXCEPT ![t] = None]
                   /\ UNCHANGED <<hand, holder>>
    /\ UNCHANGED <<gpc, sink, ops, started, spanState, extensions, inside,
                   attrsOf, enters, calls, built, atDrop, failed,
                   recorded>>

\* write: lock().unwrap().force_push(current).  The MutexGuard is a
\* temporary of the `if let` scrutinee, so the lock stays held while the
\* evicted event is written; with nothing evicted write returns Ok(()).
Swap(t) ==
    /\ pc[t] = "swap"
    /\ holder = None
    /\ LET r == force_push(slot, Unwrap(cur[t]))
       IN  /\ slot' = r.queue
           /\ swaps' = Append(swaps, Unwrap(cur[t]))
           /\ cur' = [cur EXCEPT ![t] = None]
           /\ IF r.evicted # None
              THEN /\ hand' = [hand EXCEPT ![t] = r.evicted]
                   /\ holder' = Some(t)
                   /\ pc' = [pc EXCEPT ![t] = "write"]
                   /\ UNCHANGED inSpan
              ELSE /\ pc' = [pc EXCEPT ![t] = "idle"]
                   /\ inSpan' = [inSpan EXCEPT ![t] = None]
                   /\ UNCHANGED <<hand, holder>>
    /\ UNCHANGED <<gpc, sink, ops, started, spanState, extensions, inside,
                   attrsOf, enters, calls, built, atDrop, failed,
                   recorded>>

\* write: write_all of the evicted event and ",\n", then the lock is
\* released and the callback returns.
WriteEvicted(t) ==
    /\ pc[t] = "write"
    /\ sink' = sink \o EvictedBuf(Unwrap(hand[t]))
    /\ hand' = [hand EXCEPT ![t] = None]
    /\ holder' = None
    /\ pc' = [pc EXCEPT ![t] = "idle"]
    /\ inSpan' = [inSpan EXCEPT ![t] = None]
    /\ UNCHANGED <<gpc, slot, cur, ops, started, spanState, extensions,
                   inside, attrsOf, enters, calls, built, atDrop, swaps,
                   failed,
                   recorded>>

\* write: write_all of the evicted event returns Err.  write returns the
\* Err, which drops the evicted string and releases the lock unpoisoned, and
\* the callback's expect() panics: the thread unwinds.
WriteFails(t) ==
    /\ pc[t] = "write"
    /\ hand' = [hand EXCEPT ![t] = None]
    /\ holder' = None
    /\ pc' = [pc EXCEPT ![t] = "panicked"]
    /\ inSpan' = [inSpan EXCEPT ![t] = None]
    /\ failed' = TRUE
    /\ UNCHANGED <<gpc, slot, sink, cur, ops, started, spanState, extensions,
                   inside, attrsOf, enters, calls, built, atDrop, swaps,
                   recorded>>

\* --------------------------------------------------------- the Layer
\* Layer::on_event: phase Instant by default, the event's fields recorded
\* over it, the event built and written.  A bad field value panics.
OnEvent(t, fields) ==
    /\ CanCall(t)
    /\ ops' = ops + 1
    /\ started' = Starts(t)
    /\ LET visitor == ChromeEventVisitor(SetField(builder, "ph", "Instant"))
           r == record(visitor, fields)
       IN  IF r.panic
           THEN /\ pc' = [pc EXCEPT ![t] = "panicked"]
                /\ UNCHANGED <<cur, inSpan, calls, built, recorded>>
           ELSE /\ CallWrite(t, build(r.v.builder, Now, t), 0)
                /\ recorded' = Append(recorded, [fields |-> fields,
                                                 at |-> Len(built) + 1])
    /\ UNCHANGED <<gpc, slot, holder, sink, hand, spanState, extensions,
                   inside, attrsOf, enters, atDrop, swaps, failed>>

\* The id the registry gives the next span.
NextSpanId == CHOOSE s \in SpanIds :
    spanState[s] = "none" /\ \A r \in SpanIds : spanState[r] = "none" => s <= r

\* Layer::on_new_span: record the attributes into a visitor and store it in
\* the span's extensions.  A panic while recording leaves the span without
\* a visitor, and its creator never gets a handle to it.
OnNewSpan(t, fields) ==
    /\ CanCall(t)
    /\ \E s \in SpanIds : spanState[s] = "none"
    /\ ops' = ops + 1
    /\ started' = Starts(t)
    /\ LET s == NextSpanId
           r == record(ChromeEventVisitor(builder), fields)
       IN  IF r.panic
           THEN /\ spanState' = [spanState EXCEPT ![s] = "leaked"]
                /\ pc' = [pc EXCEPT ![t] = "panicked"]
                /\ UNCHANGED <<extensions, attrsOf>>
           ELSE /\ spanState' = [spanState EXCEPT ![s] = "open"]
                /\ extensions' = [extensions EXCEPT ![s].visitor = Some(r.v)]
                /\ attrsOf' = [attrsOf EXCEPT ![s] = fields]
                /\ UNCHANGED pc
    /\ UNCHANGED <<gpc, slot, holder, sink, cur, hand, inSpan, inside,
                   enters, calls, built, atDrop, swaps, failed,
                   recorded>>

\* span.extensions_mut() is free: no callback holds the span's extensions.
ExtFree(s) == \A u \in Threads : inSpan[u] # Some(s)

\* Mutant of AlreadyEntered: the AsyncEntered marker is never found.
AlreadyEnteredNever(s) == FALSE

\* extensions.get_mut::<AsyncEntered>().is_some()
AlreadyEntered(s) == extensions[s].asyncEntered

\* The phase on_enter gives the span's builder.
EnterPhase(visitor) == IF is_async(visitor) THEN "AsyncStart" ELSE "DurationBegin"

\* Mutant of ClosePhase: the async directive is ignored at close.
ClosePhaseSync(visitor) == "DurationEnd"

\* The phase on_close gives the span's builder.
ClosePhase(visitor) == IF is_async(visitor) THEN "AsyncEnd" ELSE "DurationEnd"

\* Layer::on_enter: return at once when AsyncEntered is already in the
\* extensions; else insert it, set the begin phase and write the event.
OnEnter(t, s) ==
    /\ CanCall(t)
    /\ spanState[s] = "open"
    /\ t \notin inside[s]
    /\ ExtFree(s)
    /\ ops' = ops + 1
    /\ started' = Starts(t)
    /\ inside' = [inside EXCEPT ![s] = @ \cup {t}]
    /\ enters' = [enters EXCEPT ![s] = @ + 1]
    /\ IF AlreadyEntered(s)
       THEN UNCHANGED <<extensions, cur, pc, inSpan, calls, built>>
       ELSE IF extensions[s].visitor = None
       THEN /\ extensions' = [extensions EXCEPT ![s].asyncEntered = TRUE]
            /\ UNCHANGED <<cur, pc, inSpan, calls, built>>
       ELSE LET old == Unwrap(extensions[s].visitor)
                visitor == [old EXCEPT !.builder =
                               SetField(old.builder, "ph", EnterPhase(old))]
            IN  /\ extensions' = [extensions EXCEPT
                                     ![s] = [visitor |-> Some(visitor),
                                             asyncEntered |-> TRUE]]
                /\ CallWrite(t, build(visitor.builder, Now, t), s)
    /\ UNCHANGED <<gpc, slot, holder, sink, hand, spanState, attrsOf, atDrop,
                   swaps, failed,
                   recorded>>

\* Layer::on_exit: an empty body.  The registry notes that the thread left.
OnExit(t, s) ==
    /\ CanCall(t)
    /\ spanState[s] = "open"
    /\ t \in inside[s]
    /\ ops' = ops + 1
    /\ started' = Starts(t)
    /\ inside' = [inside EXCEPT ![s] = @ \ {t}]
    /\ UNCHANGED <<gpc, slot, holder, sink, pc, cur, hand, inSpan, spanState,
                   extensions, attrsOf, enters, calls, built, atDrop, swaps,
                   failed,
                   recorded>>

\* Layer::on_close, called once when the last handle to the span is gone:
\* set the end phase and write the event.
OnClose(t, s) ==
    /\ CanCall(t)
    /\ spanState[s] = "open"
    /\ inside[s] = {}
    /\ ExtFree(s)
    /\ ops' = ops + 1
    /\ started' = Starts(t)
    /\ spanState' = [spanState EXCEPT ![s] = "closed"]
    /\ IF extensions[s].visitor = None
       THEN UNCHANGED <<extensions, cur, pc, inSpan, calls, built>>
       ELSE LET old == Unwrap(extensions[s].visitor)
                visitor == [old EXCEPT !.builder =
                               SetField(old.builder, "ph", ClosePhase(old))]
            IN  /\ extensions' = [extensions EXCEPT ![s].visitor = Some(visitor)]
                /\ CallWrite(t, build(visitor.builder, Now, t), s)
    /\ UNCHANGED <<gpc, slot, holder, sink, hand, inside, attrsOf, enters,
                   atDrop, swaps, failed,
                   recorded>>

\* ------------------------------------------- ChromeWriterGuard::drop
\* The calls whose write has returned: all but the one a thread is in.
Returned ==
    {<<calls[i].by, calls[i].n>> : i \in 1..Len(calls)}
        \ {<<t, Cardinality({i \in 1..Len(calls) : calls[i].by = t})>> :
              t \in {u \in Threads : pc[u] \in {"swap", "write"}}}

\* drop begins: make_writer(), then self.events.lock().
DropBegin ==
    /\ gpc = "live"
    /\ gpc' = "lock"
    /\ atDrop' = Some(Returned)
    /\ UNCHANGED <<slot, holder, sink, pc, cur, hand, inSpan, ops, started,
                   spanState, extensions, inside, attrsOf, enters, calls,
                   built, swaps, failed,
                   recorded>>

\* drop takes the lock.  No thread panics while holding it, so lock() is Ok.
DropLock ==
    /\ gpc = "lock"
    /\ holder = None
    /\ holder' = Some(Main)
    /\ gpc' = "drain"
    /\ UNCHANGED <<slot, sink, pc, cur, hand, inSpan, ops, started,
                   spanState, extensions, inside, attrsOf, enters, calls,
                   built, atDrop, swaps, failed,
                   recorded>>

\* drop drains the queue into the sink and releases the lock.
DropDrain ==
    /\ gpc = "drain"
    /\ sink' = sink \o Drain(slot)
    /\ slot' = <<>>
    /\ holder' = None
    /\ gpc' = "close"
    /\ UNCHANGED <<pc, cur, hand, inSpan, ops, started, spanState,
                   extensions, inside, attrsOf, enters, calls, built, atDrop,
                   swaps, failed,
                   recorded>>

\* drop's last write: the closing bracket.
CloseBuf == <<Lit("]"), Lit("\n")>>

\* drop writes the closing bracket, after the lock is released.
DropClose ==
    /\ gpc = "close"
    /\ sink' = sink \o CloseBuf
    /\ gpc' = "done"
    /\ UNCHANGED <<slot, holder, pc, cur, hand, inSpan, ops, started,
                   spanState, extensions, inside, attrsOf, enters, calls,
                   built, atDrop, swaps, failed,
                   recorded>>

\* ---------------------------------------------------------------- Next
Next ==
    \/ WithWriter
    \/ \E t \in Threads : \E fields \in EventInputs : OnEvent(t, fields)
    \/ \E t \in Threads : \E fields \in SpanInputs : OnNewSpan(t, fields)
    \/ \E t \in Threads : \E s \in SpanIds : OnEnter(t, s)
    \/ \E t \in Threads : \E s \in SpanIds : OnExit(t, s)
    \/ \E t \in Threads : \E s \in SpanIds : OnClose(t, s)
    \/ \E t \in Threads : Swap(t)
    \/ \E t \in Threads : WriteEvicted(t)
    \/ DropBegin
    \/ DropLock
    \/ DropDrain
    \/ DropClose

Spec == Init /\ [][Next]_vars

\* The producers recording events and creating spans while the guard is
\* live, fields that do not parse among them.
NextEvents ==
    \/ WithWriter
    \/ \E t \in Threads : \E fields \in EventInputs \cup BadInputs :
          OnEvent(t, fields)
    \/ \E t \in Threads : \E fields \in SpanInputs \cup BadInputs :
          OnNewSpan(t, fields)
    \/ \E t \in Threads : Swap(t)
    \/ \E t \in Threads : WriteEvicted(t)

SpecEvents == Init /\ [][NextEvents]_vars

\* The program on a sink whose writes can fail.
NextIo ==
    \/ Next
    \/ \E t \in Threads : WriteFails(t)

SpecIo == Init /\ [][NextIo]_vars

\* ------------------------------------------ producers that never stop
\* The histories and the sink grow with every event, so a producer that
\* submits for ever has no finite state space under the actions above.  The
\* three actions below are on_event and write with nothing recorded: the
\* histories and the callback budget stay as they are, and the bytes of an
\* evicted event are not appended to the sink, which the program never reads.

\* The event a producer keeps submitting: tracing::info!(thread = .., index = ..).
Repeated(t) ==
    Labelled(to_string(build(arg(SetField(builder, "ph", "Instant"),
                                 "thread", <<"0">>), 0, t)), t, 0)

\* Layer::on_event up to write's lock: the event is built and serialized.
SubmitAgain(t) ==
    /\ gpc # "unattached"
    /\ pc[t] = "idle"
    /\ cur' = [cur EXCEPT ![t] = Some(Repeated(t))]
    /\ pc' = [pc EXCEPT ![t] = "swap"]
    /\ UNCHANGED <<gpc, slot, holder, sink, hand, inSpan, ops, started,
                   spanState, extensions, inside, attrsOf, enters, calls,
                   built, swaps, failed, recorded, atDrop>>

\* write: lock().unwrap().force_push(current), the lock kept while an
\* evicted event is in hand.
SwapAgain(t) ==
    /\ pc[t] = "swap"
    /\ holder = None
    /\ LET r == force_push(slot, Unwrap(cur[t]))
       IN  /\ slot' = r.queue
           /\ cur' = [cur EXCEPT ![t] = None]
           /\ IF r.evicted # None
              THEN /\ hand' = [hand EXCEPT ![t] = r.evicted]
                   /\ holder' = Some(t)
                   /\ pc' = [pc EXCEPT ![t] = "write"]
              ELSE /\ pc' = [pc EXCEPT ![t] = "idle"]
                   /\ UNCHANGED <<hand, holder>>
    /\ UNCHANGED <<gpc, sink, inSpan, ops, started, spanState, extensions,
                   inside, attrsOf, enters, calls, built, swaps, failed,
                   recorded, atDrop>>

\* write: write_all of the evicted event returns, the lock is released and
\* the callback returns.
WriteAgain(t) ==
    /\ pc[t] = "write"
    /\ hand' = [hand EXCEPT ![t] = None]
    /\ holder' = None
    /\ pc' = [pc EXCEPT ![t] = "idle"]
    /\ UNCHANGED <<gpc, slot, sink, cur, inSpan, ops, started, spanState,
                   extensions, inside, attrsOf, enters, calls, built, swaps,
                   failed, recorded, atDrop>>

\* Producers that submit events for as long as they like, and the drop.
NextLive ==
    \/ WithWriter
    \/ \E t \in Threads : SubmitAgain(t)
    \/ \E t \in Threads : SwapAgain(t)
    \/ \E t \in Threads : WriteAgain(t)
    \/ DropBegin
    \/ DropLock
    \/ DropDrain
    \/ DropClose

\* Fair scheduling: a thread whose next step stays possible takes it.  A
\* producer is free to submit or not, and the guard to be dropped or not.
\* std::sync::Mutex promises no order among the threads that want the lock,
\* so a lock() has weak fairness only: it returns if the lock stays free.
FairScheduling ==
    /\ \A t \in Threads : WF_vars(SwapAgain(t)) /\ WF_vars(WriteAgain(t))
    /\ WF_vars(DropLock)
    /\ WF_vars(DropDrain)
    /\ WF_vars(DropClose)

SpecLive == Init /\ [][NextLive]_vars /\ FairScheduling

\* One producer feeding the layer the events of FieldInputs, up to the
\* guard's drop: what record_debug, the builder and the serializer make of
\* the fields.
NextFields ==
    \/ WithWriter
    \/ \E fields \in FieldInputs : ops < MaxFieldOps /\ OnEvent(1, fields)
    \/ \E fields \in SpanInputs : OnNewSpan(1, fields)
    \/ \E s \in SpanIds : OnEnter(1, s)
    \/ \E s \in SpanIds : OnClose(1, s)
    \/ Swap(1)
    \/ WriteEvicted(1)

SpecFields == Init /\ [][NextFields]_vars

\* ------------------------------------------------ reading the sink
\* The sink without its newlines (JSON whitespace).
Bytes == SelectSeq(sink, LAMBDA tok : tok # Lit("\n"))

\* The events in the sink, in the order their bytes were written.
SinkEvents ==
    LET objs == SelectSeq(sink, IsObj)
    IN  [i \in 1..Len(objs) |-> objs[i].obj]

\* How many times a token occurs in the sink.
Count(tok) == Cardinality({i \in 1..Len(sink) : sink[i] = tok})

\* Every call to write made so far, as (thread, number) labels.
AllCalls == {<<calls[i].by, calls[i].n>> : i \in 1..Len(calls)}

\* No callback is running.
Quiet == \A t \in Threads : pc[t] \in {"idle", "panicked"}

\* drop began after every write made in the run had returned.
DroppedAfterAll == atDrop = Some(AllCalls)

\* `[`, then the events with a comma after each but the last, then `]`.
RECURSIVE Elements(_)
Elements(evs) ==
    IF evs = <<>> THEN <<>>
    ELSE IF Len(evs) = 1 THEN <<Obj(evs[1]), Lit("\n")>>
    ELSE <<Obj(evs[1]), Lit(","), Lit("\n")>> \o Elements(Tail(evs))

ArrayOf(evs) == <<Lit("["), Lit("\n")>> \o Elements(evs) \o <<Lit("]"), Lit("\n")>>

\* ---------------------------------------------------------------- C1
\* C1: when one thread has submitted k >= 0 events in sequence and the guard
\* was dropped after them, the sink is exactly `[`, the k events in the
\* order they were submitted, a comma after each but the last, then `]`.
C1_SequentialArray ==
    (/\ gpc = "done"
     /\ DroppedAfterAll
     /\ \A i \in 1..Len(calls) : calls[i].by = 1)
        => sink = ArrayOf(calls)

C1_Witness ==
    /\ gpc = "done"
    /\ DroppedAfterAll
    /\ Len(calls) = 3
    /\ \A i \in 1..Len(calls) : calls[i].by = 1

\* ---------------------------------------------------------------- C2
\* C2: when the producers have submitted their events concurrently and the
\* guard was dropped after all of them had finished, every submitted event
\* is in the sink exactly once and the sink holds no other event.
C2_ExactlyOnce ==
    (gpc = "done" /\ DroppedAfterAll)
        => /\ Len(SinkEvents) = Len(calls)
           /\ \A i \in 1..Len(calls) :
                 Cardinality({j \in 1..Len(SinkEvents) : SinkEvents[j] = calls[i]}) = 1

\* Two threads, two Instant events each, written interleaved.
C2_Witness ==
    /\ gpc = "done"
    /\ DroppedAfterAll
    /\ Len(calls) = 4
    /\ \A i \in 1..4 : calls[i].span = 0 /\ calls[i].json["ph"] = "i"
    /\ \A t \in 1..2 : Cardinality({i \in 1..4 : calls[i].by = t}) = 2
    /\ Len(SinkEvents) = 4
    /\ SinkEvents[1].by = 1 /\ SinkEvents[2].by = 2
    /\ SinkEvents[3].by = 1 /\ SinkEvents[4].by = 2

\* ---------------------------------------------------------------- C3
\* C3: in every state, under any interleaving of the producers (and of the
\* guard's drop), two events of one thread lie in the sink in the order that
\* thread submitted them.
C3_ThreadOrder ==
    \A i, j \in 1..Len(SinkEvents) :
        (i < j /\ SinkEvents[i].by = SinkEvents[j].by)
            => SinkEvents[i].n < SinkEvents[j].n

\* Thread 1's two events lie around an event of thread 2.
C3_Witness ==
    /\ Len(SinkEvents) >= 3
    /\ SinkEvents[1].by = 1
    /\ SinkEvents[2].by = 2
    /\ SinkEvents[3].by = 1

\* ---------------------------------------------------------------- C4
\* `[`, then events and commas in turn: a prefix of a JSON array of objects.
ArrayPrefix(b) ==
    /\ Len(b) >= 1
    /\ b[1] = Lit("[")
    /\ \A i \in 2..Len(b) :
          IF i % 2 = 0 THEN IsObj(b[i]) ELSE b[i] = Lit(",")

\* C4: from the opening bracket until the closing bracket is written, under
\* any interleaving of the producers with the guard's drop, the sink is
\* `[` followed by complete events with a comma between every two of them,
\* and the closing bracket is never written directly after a comma.
C4_ValidPrefix ==
    /\ gpc \in {"live", "lock", "drain", "close"} => ArrayPrefix(Bytes)
    /\ \A i \in 1..Len(Bytes) :
          Bytes[i] = Lit("]") => (i > 1 /\ Bytes[i - 1] # Lit(","))

\* ---------------------------------------------------------------- C5
\* C5: the closing bracket is written exactly once per guard and nothing
\* reaches the sink after it: no event submitted while or after the guard is
\* dropped is written behind the bracket.
C5_CloseIsLast ==
    /\ gpc # "done" => Count(Lit("]")) = 0
    /\ gpc = "done" => (Count(Lit("]")) = 1 /\ Bytes[Len(Bytes)] = Lit("]"))

\* ---------------------------------------------------------------- C6
\* C6: once drop has returned, every event whose write had returned before
\* drop began is in the sink, and the closing bracket lies behind it.
C6_SynchronousShutdown ==
    gpc = "done" =>
        \A c \in Unwrap(atDrop) :
            \E i, j \in 1..Len(sink) :
                /\ IsObj(sink[i])
                /\ <<sink[i].obj.by, sink[i].obj.n>> = c
                /\ i < j
                /\ sink[j] = Lit("]")

\* Two events were complete when drop began and a third was submitted in
\* time to be drained.
C6_Witness ==
    /\ gpc = "done"
    /\ Cardinality(Unwrap(atDrop)) = 2
    /\ Len(calls) = 3
    /\ Len(SinkEvents) = 3

\* ---------------------------------------------------------------- C7
\* C7: the opening bracket is written once, when with_writer builds the
\* guard: nothing is in the sink before, and afterwards `[` is the first
\* token of the sink, occurs once and lies before every event.
C7_OpenOnceFirst ==
    /\ gpc = "unattached" => sink = <<>>
    /\ gpc # "unattached" =>
          /\ Count(Lit("[")) = 1
          /\ sink[1] = Lit("[")
          /\ \A i \in 1..Len(sink) : IsObj(sink[i]) => i > 1

\* Events of later submissions are in the sink, behind the bracket.
C7_Witness ==
    /\ gpc = "live"
    /\ Len(SinkEvents) = 3

\* ---------------------------------------------------------------- C8
\* The events submitted for a span, in the order of the calls to write.
SpanEvents(s) ==
    LET evs == SelectSeq(calls, LAMBDA c : c.span = s)
    IN  [i \in 1..Len(evs) |-> evs[i].json]

\* The text a field was given: its Debug text without the quotes of a &str.
Plain(v) == IF v # <<>> /\ v[1] = "\"" THEN SubSeq(v, 2, Len(v) - 1) ELSE v

\* The span was created with an `event = "async"` field.
CreatedAsync(s) ==
    \E i \in 1..Len(attrsOf[s]) : attrsOf[s][i] = <<"event", DebugStr(Async)>>

\* The JSON object carries the name, category and args of the fields.
Carries(json, fields) ==
    \A i \in 1..Len(fields) :
        CASE fields[i][1] = "name"  -> json["name"] = Plain(fields[i][2])
          [] fields[i][1] = "cat"   -> json["cat"] = Plain(fields[i][2])
          [] fields[i][1] = "event" -> TRUE
          [] OTHER -> /\ "args" \in DOMAIN json
                      /\ fields[i][1] \in DOMAIN json["args"]
                      /\ json["args"][fields[i][1]] = Plain(fields[i][2])

\* C8: a span created, entered once and closed has had exactly two events
\* submitted, the Begin of on_enter and then the End of on_close, both with
\* the name, category and args it was created with: phases B then E, or b
\* then e when it was created with `event = "async"`.
C8_BeginThenEnd ==
    \A s \in SpanIds :
        (spanState[s] = "closed" /\ enters[s] = 1) =>
            LET evs == SpanEvents(s)
            IN  /\ Len(evs) = 2
                /\ evs[1]["ph"] = (IF CreatedAsync(s) THEN "b" ELSE "B")
                /\ evs[2]["ph"] = (IF CreatedAsync(s) THEN "e" ELSE "E")
                /\ Carries(evs[1], attrsOf[s])
                /\ Carries(evs[2], attrsOf[s])
                /\ evs[1]["name"] = evs[2]["name"]
                /\ evs[1]["cat"] = evs[2]["cat"]
                /\ ("args" \in DOMAIN evs[1]) = ("args" \in DOMAIN evs[2])
                /\ "args" \in DOMAIN evs[1] => evs[1]["args"] = evs[2]["args"]

\* An async span entered once and closed, its two events written.
C8_Witness ==
    \E s \in SpanIds :
        /\ spanState[s] = "closed"
        /\ enters[s] = 1
        /\ CreatedAsync(s)
        /\ Quiet
        /\ Len(SpanEvents(s)) = 2

\* ---------------------------------------------------------------- C9
\* An open span has had one Begin submitted once it was entered, none before.
C9_OneBegin ==
    \A s \in SpanIds :
        spanState[s] = "open" =>
            IF enters[s] = 0 THEN SpanEvents(s) = <<>>
            ELSE /\ Len(SpanEvents(s)) = 1
                 /\ SpanEvents(s)[1]["ph"] = (IF CreatedAsync(s) THEN "b" ELSE "B")

\* An on_exit step leaves the engine, the spans and the submissions alone.
C9_ExitStep ==
    \A t \in Threads : \A s \in SpanIds :
        OnExit(t, s) => UNCHANGED <<engineVars, spanVars, calls>>

\* C9: whatever on_enter and on_exit calls are made on a span before it
\* closes, by whichever threads, exactly one Begin is submitted, at the first
\* entry; later entries submit nothing, and on_exit submits nothing and
\* changes no span or engine state.
C9_EnterOnce == [](C9_OneBegin) /\ [][C9_ExitStep]_vars

\* Two threads have entered the span and the first has left it again.
C9_Witness ==
    \E s \in SpanIds :
        /\ spanState[s] = "open"
        /\ enters[s] = 2
        /\ inside[s] = {2}
        /\ Quiet

\* --------------------------------------------------------------- C10
\* C10: a span closed without ever having been entered has had no event
\* submitted for it.
C10_NoEndWithoutEnter ==
    \A s \in SpanIds :
        (spanState[s] = "closed" /\ enters[s] = 0) => SpanEvents(s) = <<>>

\* --------------------------------------------------------------- C11
\* A callback that records fields with an unparsable well-known value
\* unwinds, and leaves the slot, its lock, the sink, the strings in the
\* producers' hands, the submissions and every span's extensions as they were.
C11_BadStep ==
    \A t \in Threads : \A fields \in BadInputs :
        (OnEvent(t, fields) \/ OnNewSpan(t, fields)) =>
            /\ pc'[t] = "panicked"
            /\ UNCHANGED <<engineVars, calls, built, swaps, extensions>>

\* C11: when a well-known field of an event or span has a value that does
\* not parse (ts, dur, tts, pid, tid not a number, ph not a phase name),
\* building that one event is aborted and the stream state is unchanged:
\* nothing is swapped into the slot, nothing is written, and what other
\* producers submit afterwards is emitted as if the bad event never was.
C11_BadFieldAborts == [][C11_BadStep]_vars

\* The first producer unwound on its first callback, and an event the second
\* producer submitted after that has reached the sink.
C11_Witness ==
    /\ pc[1] = "panicked"
    /\ calls # <<>>
    /\ \A i \in 1..Len(calls) : calls[i].by = 2
    /\ Len(SinkEvents) >= 1

\* --------------------------------------------------------------- C12
\* C12: the mapping of the 22 phases to their wire codes is a bijection onto
\* its image: the wire code of every event submitted, whatever its phase,
\* decodes to the phase the event was built with and to no other phase.
C12_PhaseRoundTrip ==
    \A i \in 1..Len(built) : PhDecode(calls[i].json["ph"]) = {built[i].ph}

\* An event recorded with ph = "AsyncStart" and one with ph = "Sample" were
\* submitted with the codes b and p.
C12_Witness ==
    /\ Len(built) = 2
    /\ built[1].ph = "AsyncStart" /\ calls[1].json["ph"] = "b"
    /\ built[2].ph = "Sample" /\ calls[2].json["ph"] = "p"

\* --------------------------------------------------------------- C13
\* C13: for every event submitted, deserializing its JSON serialization
\* succeeds and yields an event equal to the one serialized, dur, tts, id
\* and args being omitted when absent or empty.
C13_SerdeRoundTrip ==
    \A i \in 1..Len(built) :
        /\ deserialize(calls[i].json) # None
        /\ eq(Unwrap(deserialize(calls[i].json)), built[i])

\* --------------------------------------------------------------- C14
\* The field names record_debug knows.
WellKnown == {"name", "cat", "ph", "ts", "dur", "tts", "id", "pid", "tid", "event"}

\* The pairs of the fields whose key is not well-known, as a map.
CustomArgs(fields) ==
    LET at(k) == CHOOSE i \in 1..Len(fields) : fields[i][1] = k
    IN  [k \in {fields[i][1] : i \in 1..Len(fields)} \ WellKnown |->
            Plain(fields[at(k)][2])]

\* The value of the field named k, if there is one.
FieldNamed(fields, k) ==
    {Plain(fields[i][2]) : i \in {j \in 1..Len(fields) : fields[j][1] = k}}

\* Every event on_event built has exactly the custom pairs of its fields
\* as its args, and its name, cat and id set from the fields of that name.
C14_EventArgs ==
    \A j \in 1..Len(recorded) :
        LET event == built[recorded[j].at]
            fields == recorded[j].fields
        IN  /\ event.args = CustomArgs(fields)
            /\ \A k \in {"name", "cat", "id"} :
                  FieldNamed(fields, k) # {} => FieldNamed(fields, k) = {event[k]}

\* The events of a span have exactly the custom pairs of its attributes as
\* args, and the span's visitor keeps the `event` field as its directive.
C14_SpanArgs ==
    /\ \A i \in 1..Len(built) :
          calls[i].span # 0 => built[i].args = CustomArgs(attrsOf[calls[i].span])
    /\ \A s \in SpanIds :
          spanState[s] = "open" =>
              Unwrap(extensions[s].visitor).event = FieldNamed(attrsOf[s], "event")

\* C14: for every sequence of fields recorded for one span or event, the
\* args map holds exactly the pairs whose key is not one of name, cat, ph,
\* ts, dur, tts, id, pid, tid, event: a well-known key sets its typed field
\* and is no argument, and `event` is kept as the directive only.
C14_ArgsExact == C14_EventArgs /\ C14_SpanArgs

\* An event recorded with thread, name, event and index fields was built
\* with the args thread and index, and an async span's Begin with the arg n.
C14_Witness ==
    /\ Len(built) = 2
    /\ DOMAIN built[1].args = {"thread", "index"}
    /\ built[1].name = <<"h", "i">>
    /\ calls[2].span # 0
    /\ DOMAIN built[2].args = {"n"}

\* --------------------------------------------------------------- C15
\* The texts "DefaultEventName" and "DefaultCategory".
DefaultEventName ==
    <<"D", "e", "f", "a", "u", "l", "t", "E", "v", "e", "n", "t", "N", "a",
      "m", "e">>
DefaultCategory ==
    <<"D", "e", "f", "a", "u", "l", "t", "C", "a", "t", "e", "g", "o", "r",
      "y">>

\* An event recorded without a name field is built with the name
\* "DefaultEventName", one recorded without a cat field with the category
\* "DefaultCategory".
C15_Defaulted(event, fields) ==
    /\ FieldNamed(fields, "name") = {} => event.name = DefaultEventName
    /\ FieldNamed(fields, "cat") = {} => event.cat = DefaultCategory

\* C15: an event built without a name field has the name "DefaultEventName",
\* and one built without a cat field has the category "DefaultCategory".
C15_DefaultNames ==
    \A j \in 1..Len(recorded) :
        C15_Defaulted(built[recorded[j].at], recorded[j].fields)

\* --------------------------------------------------------------- C16
\* In how many places the string is held: slot, producers' hands, and the
\* sink, whose events are evs.
HeldCount(ev, evs) ==
    Cardinality({i \in 1..Len(slot) : slot[i] = ev})
        + Cardinality({t \in Threads : hand[t] = Some(ev)})
        + Cardinality({i \in 1..Len(evs) : evs[i] = ev})

\* C16: under any interleaving of producers the slot holds at most one
\* pending event, and every event whose swap has happened is held exactly
\* once: in the slot, in the hand of the producer that evicted it, or in the
\* sink.  Once an event was swapped in and until the guard is dropped, the
\* slot holds exactly the event swapped in last.
C16_OnePending ==
    /\ Len(slot) <= 1
    /\ LET evs == SinkEvents
       IN  \A i \in 1..Len(swaps) : HeldCount(swaps[i], evs) = 1
    /\ (gpc = "live" /\ swaps # <<>>) => slot = <<swaps[Len(swaps)]>>

\* Before the drop, both producers have swapped events in, and one of them
\* holds the event it evicted while two others are in the sink and the slot
\* holds the fourth.
C16_Witness ==
    /\ gpc = "live"
    /\ Len(swaps) = 4
    /\ {swaps[i].by : i \in 1..Len(swaps)} = Threads
    /\ \E t \in Threads : hand[t] = Some(swaps[3])
    /\ Len(SinkEvents) = 2

\* --------------------------------------------------------------- C17
\* C17: after a write of an evicted event to the sink has failed, no
\* producer writes a further event to the sink.
C17_FailureEndsStream ==
    [][failed => \A t \in Threads : ~WriteEvicted(t)]_vars

\* --------------------------------------------------------------- C18
\* The phases of asynchronous events.
AsyncPhases == {"AsyncStart", "AsyncInstant", "AsyncEnd"}

\* A free event is built with the phase its ph field names; without a ph
\* field, with an asynchronous phase when its event field says async; and
\* with Instant when it has neither field.
C18_PhaseFrom(event, fields) ==
    IF FieldNamed(fields, "ph") # {}
    THEN VariantName(event.ph) \in FieldNamed(fields, "ph")
    ELSE IF FieldNamed(fields, "event") = {Async}
    THEN event.ph \in AsyncPhases
    ELSE FieldNamed(fields, "event") = {} => event.ph = "Instant"

\* C18: a free event recorded by on_event has phase Instant unless it has
\* an explicit ph field or an explicit event field, and then that field
\* determines the phase of the emitted event.
C18_PhaseOfFreeEvent ==
    \A j \in 1..Len(recorded) :
        C18_PhaseFrom(built[recorded[j].at], recorded[j].fields)

\* --------------------------------------------------------------- C19
\* C19: in no reachable state is one producer waiting to acquire the slot
\* lock while another producer, holding the lock, is about to write the
\* event it evicted to the sink.
C19_NoWaitOnIo ==
    ~ \E t, u \in Threads :
          /\ t # u
          /\ pc[t] = "swap"
          /\ pc[u] = "write"
          /\ holder = Some(u)

\* --------------------------------------------------------------- C20
\* C20: under any interleaving of producers the events in the sink are, in
\* order, the first of the events swapped into the slot: no evicted event is
\* written ahead of an event that was swapped in before it.
C20_SwapOrder ==
    /\ Len(SinkEvents) <= Len(swaps)
    /\ \A i \in 1..Len(SinkEvents) : SinkEvents[i] = swaps[i]

\* Before the drop, the producer that called write second swapped first, and
\* events of both producers have reached the sink.
C20_Witness ==
    /\ gpc = "live"
    /\ swaps # <<>>
    /\ calls[1].by = 1
    /\ swaps[1].by = 2
    /\ Len(SinkEvents) >= 2
    /\ {SinkEvents[i].by : i \in 1..Len(SinkEvents)} = Threads

\* --------------------------------------------------------------- C21
\* C21: under fair scheduling a drop that has begun always terminates, even
\* while producers keep submitting events: it gets the lock, drains the slot
\* and writes the closing bracket.
C21_DropTerminates == (gpc = "lock") ~> (gpc = "done")

====
